---- MODULE Spec2Model ----
(***************************************************************************)
(* Model of the status-derivation and event-classification conversions of  *)
(* crates/router/src/types/transformers.rs.                                *)
(*                                                                         *)
(* Every conversion is a pure function.  Each `match` of the source is     *)
(* kept as its ordered list of arms (the patterns of an arm, whether the   *)
(* arm is the wildcard `_`, and the value it returns); MatchArms evaluates *)
(* such a list the way Rust does, first matching arm wins.  The state      *)
(* machine records the last conversion that was invoked, its input and the *)
(* value it returned.  So that any two states can be compared, a field    *)
(* name holds values of one type only: the input is [value |-> v] for an   *)
(* enum and [headers |-> h] for a header map, a return value that is       *)
(* neither an Option nor a Result is kept as Value(v), and Ok, Err and     *)
(* Some carry their content under val, err, payload or flag by its type.   *)
(* For the same reason a response names the ids it received unwrapped      *)
(* merchant, profile and initial_attempt.                                  *)
(*                                                                         *)
(* Spec takes one whole conversion per step.  ConcurrentSpec keeps several *)
(* calls in flight in `calls` and steps them one statement group at a      *)
(* time, in any order.                                                     *)
(***************************************************************************)
EXTENDS Integers, Sequences, FiniteSets, TLC

VARIABLES op, input, output, calls

vars == <<op, input, output, calls>>

----------------------------------------------------------------------------
(* Result and Option values *)

Ok(v) == [tag |-> "Ok", val |-> v]

Err(e) == [tag |-> "Err", err |-> e]

Some(v) == [tag |-> "Some", val |-> v]

None == [tag |-> "None", val |-> "None"]

(* Some(b) of a bool *)
SomeFlag(b) == [tag |-> "Some", flag |-> b]

(* Ok(Self {..}) of the header payload *)
OkPayload(payload) == [tag |-> "Ok", payload |-> payload]

(* a return value that is a bare enum *)
Value(v) == [tag |-> "Value", val |-> v]

EnumInput(v) == [value |-> v]

HeadersInput(h) == [headers |-> h]

(* the value a match would have no arm for *)
Unmatched == "<no arm matches>"

Arm(pats, out) == [pats |-> pats, wild |-> FALSE, out |-> out]

WildArm(out) == [pats |-> {}, wild |-> TRUE, out |-> out]

ArmMatches(arm, v) == arm.wild \/ v \in arm.pats

MatchArms(arms, v) ==
    IF \E i \in 1..Len(arms) : ArmMatches(arms[i], v)
    THEN LET first == CHOOSE i \in 1..Len(arms) :
                         /\ ArmMatches(arms[i], v)
                         /\ \A j \in 1..(i - 1) : ~ArmMatches(arms[j], v)
         IN  arms[first].out
    ELSE Unmatched

----------------------------------------------------------------------------
(* The closed enumerations *)

AttemptStatus ==
    { "Started", "AuthenticationFailed", "RouterDeclined",
      "AuthenticationPending", "AuthenticationSuccessful", "Authorized",
      "AuthorizationFailed", "Charged", "Authorizing", "CodInitiated",
      "Voided", "VoidInitiated", "CaptureInitiated", "CaptureFailed",
      "VoidFailed", "AutoRefunded", "PartialCharged",
      "PartialChargedAndChargeable", "Unresolved", "Pending", "Failure",
      "PaymentMethodAwaited", "ConfirmationAwaited",
      "DeviceDataCollectionPending" }

IntentStatus ==
    { "Succeeded", "Failed", "Cancelled", "Processing",
      "RequiresCustomerAction", "RequiresMerchantAction",
      "RequiresPaymentMethod", "RequiresConfirmation", "RequiresCapture",
      "PartiallyCaptured", "PartiallyCapturedAndCapturable" }

----------------------------------------------------------------------------
(* StatusAggregator: AttemptStatus -> IntentStatus *)

deriveIntentStatusArms ==
    << Arm({"Charged", "AutoRefunded"}, "Succeeded"),
       Arm({"ConfirmationAwaited"}, "RequiresConfirmation"),
       Arm({"PaymentMethodAwaited"}, "RequiresPaymentMethod"),
       Arm({"Authorized"}, "RequiresCapture"),
       Arm({"AuthenticationPending", "DeviceDataCollectionPending"},
           "RequiresCustomerAction"),
       Arm({"Unresolved"}, "RequiresMerchantAction"),
       Arm({"PartialCharged"}, "PartiallyCaptured"),
       Arm({"PartialChargedAndChargeable"}, "PartiallyCapturedAndCapturable"),
       Arm({"Started", "AuthenticationSuccessful", "Authorizing",
            "CodInitiated", "VoidInitiated", "CaptureInitiated", "Pending"},
           "Processing"),
       Arm({"AuthenticationFailed", "AuthorizationFailed", "VoidFailed",
            "RouterDeclined", "CaptureFailed", "Failure"}, "Failed"),
       Arm({"Voided"}, "Cancelled") >>

(* variants of deriveIntentStatus with one slip each *)
deriveIntentStatus_NoVoidedArm(s) ==
    MatchArms(SubSeq(deriveIntentStatusArms, 1, Len(deriveIntentStatusArms) - 1), s)

deriveIntentStatus_VoidFailedCancelled(s) ==
    IF s = "VoidFailed" THEN "Cancelled" ELSE MatchArms(deriveIntentStatusArms, s)

deriveIntentStatus_CaptureInitiatedRequiresCapture(s) ==
    IF s = "CaptureInitiated" THEN "RequiresCapture"
    ELSE MatchArms(deriveIntentStatusArms, s)

deriveIntentStatus_DeviceDataProcessing(s) ==
    IF s = "DeviceDataCollectionPending" THEN "Processing"
    ELSE MatchArms(deriveIntentStatusArms, s)

deriveIntentStatus(s) == MatchArms(deriveIntentStatusArms, s)

----------------------------------------------------------------------------
(* CaptureStateValidator: AttemptStatus -> Result<CaptureStatus, _> *)

(* The message of the PreconditionFailed error: its text and, in order,    *)
(* the attempt statuses it lists between the brackets.                     *)
CaptureStatusMessage ==
    [ text  |-> "AttemptStatus must be one of these for multiple partial captures",
      names |-> << "Charged", "PartialCharged", "Pending",
                   "CaptureInitiated", "Failure", "CaptureFailed" >> ]

PreconditionFailed(message) ==
    [error |-> "PreconditionFailed", message |-> message.text,
     names |-> message.names]

toCaptureStatusArms ==
    << Arm({"Charged", "PartialCharged"}, Ok("Charged")),
       Arm({"Pending", "CaptureInitiated"}, Ok("Pending")),
       Arm({"Failure", "CaptureFailed"}, Ok("Failed")),
       Arm({"Started", "AuthenticationFailed", "RouterDeclined",
            "AuthenticationPending", "AuthenticationSuccessful",
            "Authorized", "AuthorizationFailed", "Authorizing",
            "CodInitiated", "Voided", "VoidInitiated", "VoidFailed",
            "AutoRefunded", "Unresolved", "PaymentMethodAwaited",
            "ConfirmationAwaited", "DeviceDataCollectionPending",
            "PartialChargedAndChargeable"},
           Err(PreconditionFailed(CaptureStatusMessage))) >>

(* variants of toCaptureStatus with one slip each *)
toCaptureStatus_ChargeableAccepted(attempt_status) ==
    IF attempt_status = "PartialChargedAndChargeable" THEN Ok("Charged")
    ELSE MatchArms(toCaptureStatusArms, attempt_status)

toCaptureStatus_CaptureFailedRejected(attempt_status) ==
    IF attempt_status = "CaptureFailed"
    THEN Err(PreconditionFailed(CaptureStatusMessage))
    ELSE MatchArms(toCaptureStatusArms, attempt_status)

toCaptureStatus(attempt_status) == MatchArms(toCaptureStatusArms, attempt_status)

----------------------------------------------------------------------------
(* EventClassifier: status -> Option<EventType> (EventType for disputes) *)

RefundStatus ==
    { "Success", "Failure", "ManualReview", "Pending", "TransactionFailure" }

DisputeStatus ==
    { "DisputeOpened", "DisputeExpired", "DisputeAccepted",
      "DisputeCancelled", "DisputeChallenged", "DisputeWon", "DisputeLost" }

MandateStatus == { "Active", "Revoked", "Inactive", "Pending" }

classifyIntentEventArms ==
    << Arm({"Succeeded"}, Some("PaymentSucceeded")),
       Arm({"Failed"}, Some("PaymentFailed")),
       Arm({"Processing"}, Some("PaymentProcessing")),
       Arm({"RequiresMerchantAction", "RequiresCustomerAction"},
           Some("ActionRequired")),
       Arm({"Cancelled"}, Some("PaymentCancelled")),
       Arm({"PartiallyCaptured", "PartiallyCapturedAndCapturable"},
           Some("PaymentCaptured")),
       Arm({"RequiresCapture"}, Some("PaymentAuthorized")),
       Arm({"RequiresPaymentMethod", "RequiresConfirmation"}, None) >>

(* classifyIntentEvent with RequiresCapture moved to the None arm *)
classifyIntentEvent_RequiresCaptureNone(value) ==
    IF value = "RequiresCapture" THEN None
    ELSE MatchArms(classifyIntentEventArms, value)

classifyIntentEvent(value) == MatchArms(classifyIntentEventArms, value)

classifyRefundEventArms ==
    << Arm({"Success"}, Some("RefundSucceeded")),
       Arm({"Failure"}, Some("RefundFailed")),
       Arm({"ManualReview", "Pending", "TransactionFailure"}, None) >>

(* classifyRefundEvent raising RefundFailed for TransactionFailure *)
classifyRefundEvent_TransactionFailureFailed(value) ==
    IF value = "TransactionFailure" THEN Some("RefundFailed")
    ELSE MatchArms(classifyRefundEventArms, value)

classifyRefundEvent(value) == MatchArms(classifyRefundEventArms, value)

classifyDisputeEventArms ==
    << Arm({"DisputeOpened"}, "DisputeOpened"),
       Arm({"DisputeExpired"}, "DisputeExpired"),
       Arm({"DisputeAccepted"}, "DisputeAccepted"),
       Arm({"DisputeCancelled"}, "DisputeCancelled"),
       Arm({"DisputeChallenged"}, "DisputeChallenged"),
       Arm({"DisputeWon"}, "DisputeWon"),
       Arm({"DisputeLost"}, "DisputeLost") >>

(* classifyDisputeEvent raising DisputeOpened for DisputeExpired *)
classifyDisputeEvent_ExpiredOpened(value) ==
    IF value = "DisputeExpired" THEN "DisputeOpened"
    ELSE MatchArms(classifyDisputeEventArms, value)

classifyDisputeEvent(value) == MatchArms(classifyDisputeEventArms, value)

classifyMandateEventArms ==
    << Arm({"Active"}, Some("MandateActive")),
       Arm({"Revoked"}, Some("MandateRevoked")),
       Arm({"Inactive", "Pending"}, None) >>

(* classifyMandateEvent raising MandateRevoked for Inactive *)
classifyMandateEvent_InactiveRevoked(value) ==
    IF value = "Inactive" THEN Some("MandateRevoked")
    ELSE MatchArms(classifyMandateEventArms, value)

classifyMandateEvent(value) == MatchArms(classifyMandateEventArms, value)

----------------------------------------------------------------------------
(* WebhookEventMapper: IncomingWebhookEvent -> Result<status, _> *)

(* the tags the three mappers name *)
DomainWebhookEvents ==
    { "RefundSuccess", "RefundFailure", "MandateActive", "MandateRevoked",
      "DisputeOpened", "DisputeExpired", "DisputeAccepted",
      "DisputeCancelled", "DisputeChallenged", "DisputeWon", "DisputeLost" }

(* the tags of api_models::webhooks::IncomingWebhookEvent no mapper names *)
OtherWebhookEvents ==
    { "PaymentIntentFailure", "PaymentIntentSuccess",
      "PaymentIntentProcessing", "PaymentIntentPartiallyFunded",
      "PaymentIntentCancelled", "PaymentIntentCancelFailure",
      "PaymentIntentAuthorizationSuccess",
      "PaymentIntentAuthorizationFailure", "PaymentIntentCaptureSuccess",
      "PaymentIntentCaptureFailure", "PaymentActionRequired",
      "EventNotSupported", "SourceChargeable", "SourceTransactionCreated",
      "EndpointVerification", "ExternalAuthenticationARes", "FrmApproved",
      "FrmRejected" }

IncomingWebhookEvent == DomainWebhookEvents \cup OtherWebhookEvents

IncorrectValueProvided(field_name) ==
    [error |-> "IncorrectValueProvided", field_name |-> field_name]

mapRefundWebhookArms ==
    << Arm({"RefundSuccess"}, Ok("Success")),
       Arm({"RefundFailure"}, Ok("Failure")),
       WildArm(Err(IncorrectValueProvided("incoming_webhook_event_type"))) >>

(* mapRefundWebhook taking a payment failure for a refund failure *)
mapRefundWebhook_PaymentFailureAccepted(value) ==
    IF value = "PaymentIntentFailure" THEN Ok("Failure")
    ELSE MatchArms(mapRefundWebhookArms, value)

mapRefundWebhook(value) == MatchArms(mapRefundWebhookArms, value)

mapMandateWebhookArms ==
    << Arm({"MandateActive"}, Ok("Active")),
       Arm({"MandateRevoked"}, Ok("Revoked")),
       WildArm(Err(IncorrectValueProvided("incoming_webhook_event_type"))) >>

(* mapMandateWebhook with the revoked tag mapped to Inactive *)
mapMandateWebhook_RevokedInactive(value) ==
    IF value = "MandateRevoked" THEN Ok("Inactive")
    ELSE MatchArms(mapMandateWebhookArms, value)

mapMandateWebhook(value) == MatchArms(mapMandateWebhookArms, value)

mapDisputeWebhookArms ==
    << Arm({"DisputeOpened"}, Ok("DisputeOpened")),
       Arm({"DisputeExpired"}, Ok("DisputeExpired")),
       Arm({"DisputeAccepted"}, Ok("DisputeAccepted")),
       Arm({"DisputeCancelled"}, Ok("DisputeCancelled")),
       Arm({"DisputeChallenged"}, Ok("DisputeChallenged")),
       Arm({"DisputeWon"}, Ok("DisputeWon")),
       Arm({"DisputeLost"}, Ok("DisputeLost")),
       WildArm(Err(IncorrectValueProvided("incoming_webhook_event"))) >>

(* mapDisputeWebhook with the results of DisputeWon and DisputeLost swapped *)
mapDisputeWebhook_WonLostSwapped(value) ==
    IF value = "DisputeWon" THEN Ok("DisputeLost")
    ELSE IF value = "DisputeLost" THEN Ok("DisputeWon")
    ELSE MatchArms(mapDisputeWebhookArms, value)

mapDisputeWebhook(value) == MatchArms(mapDisputeWebhookArms, value)

----------------------------------------------------------------------------
(* TrustedHeaderValidator: &HeaderMap -> Result<HeaderPayload, _> *)

X_PAYMENT_CONFIRM_SOURCE == "payment_confirm_source"

X_HS_LATENCY == "x-hs-latency"

X_CLIENT_SOURCE == "x-client-source"

X_CLIENT_VERSION == "x-client-version"

HeaderNames ==
    { X_PAYMENT_CONFIRM_SOURCE, X_HS_LATENCY, X_CLIENT_SOURCE, X_CLIENT_VERSION }

(* a header value whose bytes are not visible ASCII: HeaderValue::to_str fails *)
OpaqueBytes == "<bytes that are not visible ASCII>"

PaymentSource ==
    { "MerchantServer", "Postman", "Dashboard", "Sdk", "Webhook",
      "ExternalAuthenticator" }

(* PaymentSource is (de)serialized in snake_case *)
PaymentSourceNames ==
    [ merchant_server |-> "MerchantServer", postman |-> "Postman",
      dashboard |-> "Dashboard", sdk |-> "Sdk", webhook |-> "Webhook",
      external_authenticator |-> "ExternalAuthenticator" ]

is_for_internal_use_only(source) ==
    MatchArms(<< Arm({"Dashboard", "Sdk", "MerchantServer", "Postman"}, FALSE),
                 Arm({"Webhook", "ExternalAuthenticator"}, TRUE) >>, source)

InternalServerError == [error |-> "InternalServerError", message |-> "none"]

InvalidRequestData(message) ==
    [error |-> "InvalidRequestData", message |-> message]

(* Result<Option<&str>>: the header is absent, readable, or not a string *)
get_header_value_by_key(key, headers) ==
    IF key \notin DOMAIN headers THEN Ok(None)
    ELSE IF headers[key] = OpaqueBytes THEN Err(InternalServerError)
    ELSE Ok(Some(headers[key]))

(* StringExt::parse_enum into PaymentSource *)
parse_enum(source) ==
    IF source \in DOMAIN PaymentSourceNames
    THEN Ok(PaymentSourceNames[source])
    ELSE Err("ParsingError")

HeaderPayload(payment_confirm_source, client_source, client_version, x_hs_latency) ==
    [ payment_confirm_source |-> payment_confirm_source,
      client_source |-> client_source,
      client_version |-> client_version,
      x_hs_latency |-> x_hs_latency ]

(* parsePaymentConfirmSource dropping a value that does not parse *)
parsePaymentConfirmSource_DropsUnparsed(headers) ==
    LET got == get_header_value_by_key(X_PAYMENT_CONFIRM_SOURCE, headers)
    IN  IF got.tag = "Err" THEN got
        ELSE IF got.val.tag = "None" THEN Ok(None)
        ELSE LET parsed == parse_enum(got.val.val)
             IN  IF parsed.tag = "Err" THEN Ok(None)
                 ELSE Ok(Some(parsed.val))

(* parsePaymentConfirmSource treating the header as required *)
parsePaymentConfirmSource_Required(headers) ==
    LET got == get_header_value_by_key(X_PAYMENT_CONFIRM_SOURCE, headers)
    IN  IF got.tag = "Err" THEN got
        ELSE IF got.val.tag = "None"
        THEN Err(InvalidRequestData(
                 "Invalid data received in payment_confirm_source header"))
        ELSE LET parsed == parse_enum(got.val.val)
             IN  IF parsed.tag = "Err"
                 THEN Err(InvalidRequestData(
                          "Invalid data received in payment_confirm_source header"))
                 ELSE Ok(Some(parsed.val))

(* lines 1019-1033: read and parse the confirm source, `?` on both steps *)
parsePaymentConfirmSource(headers) ==
    LET got == get_header_value_by_key(X_PAYMENT_CONFIRM_SOURCE, headers)
    IN  IF got.tag = "Err" THEN got
        ELSE IF got.val.tag = "None" THEN Ok(None)
        ELSE LET parsed == parse_enum(got.val.val)
             IN  IF parsed.tag = "Err"
                 THEN Err(InvalidRequestData(
                          "Invalid data received in payment_confirm_source header"))
                 ELSE Ok(Some(parsed.val))

(* lines 1034-1043: when(is_some_and(is_for_internal_use_only), Err) *)
rejectInternalOnly(payment_confirm_source) ==
    IF /\ payment_confirm_source.tag = "Some"
       /\ is_for_internal_use_only(payment_confirm_source.val)
    THEN Err(InvalidRequestData(
             "Invalid data received in payment_confirm_source header"))
    ELSE Ok("unit")

(* readLatency comparing the value without regard to case *)
readLatency_IgnoresCase(headers) ==
    LET got == get_header_value_by_key(X_HS_LATENCY, headers)
    IN  IF got.tag = "Err" THEN FALSE
        ELSE got.val.tag = "Some" /\ got.val.val \in {"true", "TRUE", "True"}

(* lines 1044-1046: .map(|value| value == Some("true")).unwrap_or(false) *)
readLatency(headers) ==
    LET got == get_header_value_by_key(X_HS_LATENCY, headers)
    IN  IF got.tag = "Err" THEN FALSE
        ELSE got.val.tag = "Some" /\ got.val.val = "true"

(* assembleHeaderPayload with client_source and client_version exchanged *)
assembleHeaderPayload_SwapsClientFields(headers, payment_confirm_source) ==
    LET x_hs_latency == readLatency(headers)
        client_source == get_header_value_by_key(X_CLIENT_SOURCE, headers)
        client_version == get_header_value_by_key(X_CLIENT_VERSION, headers)
    IN  IF client_source.tag = "Err" THEN client_source
        ELSE IF client_version.tag = "Err" THEN client_version
        ELSE OkPayload(HeaderPayload(payment_confirm_source, client_version.val,
                                     client_source.val, SomeFlag(x_hs_latency)))

(* lines 1048-1059: the two opaque headers, `?` on each, then Ok(Self{..}) *)
assembleHeaderPayload(headers, payment_confirm_source) ==
    LET x_hs_latency == readLatency(headers)
        client_source == get_header_value_by_key(X_CLIENT_SOURCE, headers)
        client_version == get_header_value_by_key(X_CLIENT_VERSION, headers)
    IN  IF client_source.tag = "Err" THEN client_source
        ELSE IF client_version.tag = "Err" THEN client_version
        ELSE OkPayload(HeaderPayload(payment_confirm_source, client_source.val,
                                     client_version.val, SomeFlag(x_hs_latency)))

(* buildHeaderPayload applying the internal-only check after the other  *)
(* headers have been read                                               *)
buildHeaderPayload_LateCheck(headers) ==
    LET source == parsePaymentConfirmSource(headers)
    IN  IF source.tag = "Err" THEN source
        ELSE LET built == assembleHeaderPayload(headers, source.val)
                 checked == rejectInternalOnly(source.val)
             IN  IF built.tag = "Err" THEN built
                 ELSE IF checked.tag = "Err" THEN checked
                 ELSE built

buildHeaderPayload(headers) ==
    LET source == parsePaymentConfirmSource(headers)
    IN  IF source.tag = "Err" THEN source
        ELSE LET checked == rejectInternalOnly(source.val)
             IN  IF checked.tag = "Err" THEN checked
                 ELSE assembleHeaderPayload(headers, source.val)

(* the header values requests are drawn from *)
ConfirmSourceValues ==
    { "merchant_server", "postman", "dashboard", "sdk", "webhook",
      "external_authenticator", "Webhook", "unknown_source", OpaqueBytes }

LatencyValues == { "true", "false", "TRUE", "", OpaqueBytes }

ClientSourceValues == { "web", OpaqueBytes }

ClientVersionValues == { "1.2.3", OpaqueBytes }

(* marks a header the request does not carry *)
Absent == "<absent>"

(* the HeaderMap holding exactly the headers that are not Absent *)
HeaderMapOf(confirm_source, latency, client_source, client_version) ==
    LET given == (X_PAYMENT_CONFIRM_SOURCE :> confirm_source)
                   @@ (X_HS_LATENCY :> latency)
                   @@ (X_CLIENT_SOURCE :> client_source)
                   @@ (X_CLIENT_VERSION :> client_version)
    IN  [key \in {k \in HeaderNames : given[k] # Absent} |-> given[key]]

----------------------------------------------------------------------------
(* Connector -> RoutableConnectors *)

(* the variants the match at lines 210-308 lists, in its order; the seven  *)
(* dummy connectors exist under the dummy_connector feature                *)
Connector ==
    { "Aci", "Adyen", "Airwallex", "Authorizedotnet", "Bambora",
      "Bankofamerica", "Billwerk", "Bitpay", "Bluesnap", "Boku", "Braintree",
      "Cashtocode", "Checkout", "Coinbase", "Cryptopay", "Cybersource",
      "Dlocal", "Ebanx", "Fiserv", "Forte", "Globalpay", "Globepay",
      "Gocardless", "Gpayments", "Helcim", "Iatapay", "Klarna", "Mollie",
      "Multisafepay", "Netcetera", "Nexinets", "Nmi", "Noon", "Nuvei",
      "Opennode", "Payme", "Payone", "Paypal", "Payu", "Placetopay", "Plaid",
      "Powertranz", "Prophetpay", "Rapyd", "Shift4", "Signifyd", "Riskified",
      "Square", "Stax", "Stripe", "Trustpay", "Tsys", "Volt", "Wise",
      "Worldline", "Worldpay", "Zen", "Zsl", "DummyConnector1",
      "DummyConnector2", "DummyConnector3", "DummyConnector4",
      "DummyConnector5", "DummyConnector6", "DummyConnector7",
      "Threedsecureio" }

InvalidValue(message) == [error |-> "InvalidValue", message |-> message]

(* `Connector::X => Self::X` inside Ok(match ..) *)
RoutableArm(connector) == Arm({connector}, Ok(connector))

(* `Connector::X => Err(InvalidValue { message })?` *)
NotRoutableArm(connector, message) == Arm({connector}, Err(InvalidValue(message)))

toRoutableConnectorArms ==
    << RoutableArm("Aci"), RoutableArm("Adyen"), RoutableArm("Airwallex"),
       RoutableArm("Authorizedotnet"), RoutableArm("Bambora"),
       RoutableArm("Bankofamerica"), RoutableArm("Billwerk"),
       RoutableArm("Bitpay"), RoutableArm("Bluesnap"), RoutableArm("Boku"),
       RoutableArm("Braintree"), RoutableArm("Cashtocode"),
       RoutableArm("Checkout"), RoutableArm("Coinbase"),
       RoutableArm("Cryptopay"), RoutableArm("Cybersource"),
       RoutableArm("Dlocal"), RoutableArm("Ebanx"), RoutableArm("Fiserv"),
       RoutableArm("Forte"), RoutableArm("Globalpay"), RoutableArm("Globepay"),
       RoutableArm("Gocardless"),
       NotRoutableArm("Gpayments", "gpayments is not a routable connector"),
       RoutableArm("Helcim"), RoutableArm("Iatapay"), RoutableArm("Klarna"),
       RoutableArm("Mollie"), RoutableArm("Multisafepay"),
       NotRoutableArm("Netcetera", "netcetera is not a routable connector"),
       RoutableArm("Nexinets"), RoutableArm("Nmi"), RoutableArm("Noon"),
       RoutableArm("Nuvei"), RoutableArm("Opennode"), RoutableArm("Payme"),
       RoutableArm("Payone"), RoutableArm("Paypal"), RoutableArm("Payu"),
       RoutableArm("Placetopay"),
       NotRoutableArm("Plaid", "plaid is not a routable connector"),
       RoutableArm("Powertranz"), RoutableArm("Prophetpay"),
       RoutableArm("Rapyd"), RoutableArm("Shift4"),
       NotRoutableArm("Signifyd", "signifyd is not a routable connector"),
       NotRoutableArm("Riskified", "riskified is not a routable connector"),
       RoutableArm("Square"), RoutableArm("Stax"), RoutableArm("Stripe"),
       RoutableArm("Trustpay"), RoutableArm("Tsys"), RoutableArm("Volt"),
       RoutableArm("Wise"), RoutableArm("Worldline"), RoutableArm("Worldpay"),
       RoutableArm("Zen"), RoutableArm("Zsl"),
       RoutableArm("DummyConnector1"), RoutableArm("DummyConnector2"),
       RoutableArm("DummyConnector3"), RoutableArm("DummyConnector4"),
       RoutableArm("DummyConnector5"), RoutableArm("DummyConnector6"),
       RoutableArm("DummyConnector7"),
       NotRoutableArm("Threedsecureio",
                      "threedsecureio is not a routable connector") >>

(* variants of toRoutableConnector with one slip each *)
toRoutableConnector_PlaidRoutable(from) ==
    IF from = "Plaid" THEN Ok("Plaid") ELSE MatchArms(toRoutableConnectorArms, from)

toRoutableConnector(from) == MatchArms(toRoutableConnectorArms, from)

----------------------------------------------------------------------------
(* EventListConstraints -> EventListConstraintsInternal *)

(* Some(n) of a number *)
SomeInt(n) == [tag |-> "Some", num |-> n]

ItemInput(item) == [item |-> item]

EventListConstraints(object_id, created_after, created_before, limit, offset) ==
    [ object_id |-> object_id,
      created_after |-> created_after,
      created_before |-> created_before,
      limit |-> limit,
      offset |-> offset ]

ObjectIdFilter(object_id) == [kind |-> "ObjectIdFilter", id |-> object_id]

GenericFilter(created_after, created_before, limit, offset) ==
    [ kind |-> "GenericFilter",
      created_after |-> created_after,
      created_before |-> created_before,
      limit |-> limit,
      offset |-> offset ]

(* Ok(Self::..) of a filter *)
OkFilter(filter) == [tag |-> "Ok", filter |-> filter]

(* the message of lines 1221-1224 (written without the backquotes it puts  *)
(* around field names) and the fields it names                             *)
EventListConstraintsMessage ==
    [ text  |-> "Either only object_id must be specified, or one or more of created_after, created_before, limit and offset must be specified",
      names |-> << "object_id", "created_after", "created_before", "limit",
                   "offset" >> ]

is_some(option) == option.tag = "Some"

(* Option::map(i64::from): the widening keeps the number *)
map_i64_from(option) ==
    IF is_some(option) THEN SomeInt(option.num) ELSE None

(* toEventListConstraintsInternal with the offset left out of the check *)
toEventListConstraintsInternal_OffsetUnchecked(item) ==
    IF /\ is_some(item.object_id)
       /\ \/ is_some(item.created_after)
          \/ is_some(item.created_before)
          \/ is_some(item.limit)
    THEN Err(PreconditionFailed(EventListConstraintsMessage))
    ELSE IF is_some(item.object_id)
         THEN OkFilter(ObjectIdFilter(item.object_id.val))
         ELSE OkFilter(GenericFilter(item.created_after, item.created_before,
                                     map_i64_from(item.limit),
                                     map_i64_from(item.offset)))

toEventListConstraintsInternal(item) ==
    IF /\ is_some(item.object_id)
       /\ \/ is_some(item.created_after)
          \/ is_some(item.created_before)
          \/ is_some(item.limit)
          \/ is_some(item.offset)
    THEN Err(PreconditionFailed(EventListConstraintsMessage))
    ELSE IF is_some(item.object_id)
         THEN OkFilter(ObjectIdFilter(item.object_id.val))
         ELSE OkFilter(GenericFilter(item.created_after, item.created_before,
                                     map_i64_from(item.limit),
                                     map_i64_from(item.offset)))

(* the constraints requests are drawn from *)
ObjectIdValues == { None, Some("evt_1") }

CreatedAfterValues == { None, Some("2024-01-01T00:00:00Z") }

CreatedBeforeValues == { None, Some("2024-12-31T00:00:00Z") }

LimitValues == { None, SomeInt(10) }

OffsetValues == { None, SomeInt(0), SomeInt(20) }

----------------------------------------------------------------------------
(* domain::Event -> EventListItemResponse / EventRetrieveResponse *)

(* the fields of domain::Event the two conversions read; the fields that   *)
(* are copied as they are hold one value each                              *)
Event(merchant_id, business_profile_id, initial_attempt_id, request, response) ==
    [ event_id |-> "evt_1",
      merchant_id |-> merchant_id,
      business_profile_id |-> business_profile_id,
      primary_object_id |-> "pay_1",
      event_type |-> "PaymentSucceeded",
      event_class |-> "Payments",
      is_webhook_notified |-> TRUE,
      initial_attempt_id |-> initial_attempt_id,
      created_at |-> "2024-06-01T00:00:00Z",
      request |-> request,
      response |-> response,
      delivery_attempt |-> Some("InitialAttempt") ]

(* OptionExt::get_required_value *)
get_required_value(option, field_name) ==
    IF is_some(option) THEN Ok(option.val)
    ELSE Err([error |-> "MissingRequiredField", field_name |-> field_name])

(* ResultExt::change_context: the error of a failed result is replaced *)
change_context(result, error) ==
    IF result.tag = "Err" THEN Err(error) ELSE result

(* the strings that deserialize into each content type *)
ParsesAs ==
    [ OutgoingWebhookRequestContent |-> { "request-json" },
      OutgoingWebhookResponseContent |-> { "response-json" } ]

(* ByteSliceExt::parse_struct *)
parse_struct(bytes, type_name) ==
    IF bytes \in ParsesAs[type_name]
    THEN Ok(type_name)
    ELSE Err([error |-> "ParsingError", field_name |-> type_name])

(* Ok(Self {..}) of a response *)
OkResponse(response) == [tag |-> "Ok", response |-> response]

EventListItemResponse(item, merchant_id, profile_id, initial_attempt_id) ==
    [ event_id |-> item.event_id,
      merchant |-> merchant_id,
      profile |-> profile_id,
      object_id |-> item.primary_object_id,
      event_type |-> item.event_type,
      event_class |-> item.event_class,
      is_delivery_successful |-> item.is_webhook_notified,
      initial_attempt |-> initial_attempt_id,
      created |-> item.created_at ]

(* toEventListItemResponse accepting an event without a profile *)
toEventListItemResponse_ProfileOptional(item) ==
    LET merchant_id == change_context(
            get_required_value(item.merchant_id, "merchant_id"),
            InternalServerError)
        initial_attempt_id == change_context(
            get_required_value(item.initial_attempt_id, "initial_attempt_id"),
            InternalServerError)
    IN  IF merchant_id.tag = "Err" THEN merchant_id
        ELSE IF initial_attempt_id.tag = "Err" THEN initial_attempt_id
        ELSE OkResponse(EventListItemResponse(item, merchant_id.val,
                                              item.business_profile_id.val,
                                              initial_attempt_id.val))

(* lines 1244-1274 *)
toEventListItemResponse(item) ==
    LET merchant_id == change_context(
            get_required_value(item.merchant_id, "merchant_id"),
            InternalServerError)
        profile_id == change_context(
            get_required_value(item.business_profile_id, "business_profile_id"),
            InternalServerError)
        initial_attempt_id == change_context(
            get_required_value(item.initial_attempt_id, "initial_attempt_id"),
            InternalServerError)
    IN  IF merchant_id.tag = "Err" THEN merchant_id
        ELSE IF profile_id.tag = "Err" THEN profile_id
        ELSE IF initial_attempt_id.tag = "Err" THEN initial_attempt_id
        ELSE OkResponse(EventListItemResponse(item, merchant_id.val,
                                              profile_id.val,
                                              initial_attempt_id.val))

(* lines 1290-1297 and 1298-1305: the content must be there and must parse *)
parseContent(content, field_name, type_name) ==
    LET required == change_context(get_required_value(content, field_name),
                                   InternalServerError)
    IN  IF required.tag = "Err" THEN required
        ELSE change_context(parse_struct(required.val, type_name),
                            InternalServerError)

EventRetrieveResponse(item, event_information, request, response) ==
    [ event_information |-> event_information,
      request_content |-> request,
      response_content |-> response,
      delivery_attempt |-> item.delivery_attempt ]

(* lines 1281-1313 *)
toEventRetrieveResponse(item) ==
    LET event_information == toEventListItemResponse(item)
        request == parseContent(item.request, "request",
                                "OutgoingWebhookRequestContent")
        response == parseContent(item.response, "response",
                                 "OutgoingWebhookResponseContent")
    IN  IF event_information.tag = "Err" THEN event_information
        ELSE IF request.tag = "Err" THEN request
        ELSE IF response.tag = "Err" THEN response
        ELSE OkResponse(EventRetrieveResponse(item, event_information.response,
                                              request.val, response.val))

(* the events the conversions are given *)
MerchantIdValues == { None, Some("merchant_1") }

ProfileIdValues == { None, Some("pro_1") }

InitialAttemptIdValues == { None, Some("evt_1") }

RequestValues == { None, Some("request-json"), Some("response-json") }

ResponseValues == { None, Some("response-json"), Some("truncated") }

Events ==
    { Event(merchant_id, business_profile_id, initial_attempt_id, request,
            response) :
        merchant_id \in MerchantIdValues,
        business_profile_id \in ProfileIdValues,
        initial_attempt_id \in InitialAttemptIdValues,
        request \in RequestValues,
        response \in ResponseValues }

----------------------------------------------------------------------------
(* domain::Address -> api_types::Address *)

(* the nine fields that make up the address details *)
AddressDetailFields ==
    { "city", "line1", "line2", "line3", "state", "country", "zip",
      "first_name", "last_name" }

PhoneFields == { "phone_number", "country_code" }

(* the fields domain::Address keeps as Encryptable<Secret<String>> *)
EncryptableFields ==
    { "line1", "line2", "line3", "state", "zip", "first_name", "last_name",
      "phone_number", "email" }

AddressFields == AddressDetailFields \cup PhoneFields \cup {"email"}

(* Some(Encryptable) holding the decrypted value `inner` *)
SomeEncryptable(inner) == [tag |-> "Some", encryptable |-> [inner |-> inner]]

(* Option::map(Encryptable::into_inner) *)
map_into_inner(option) ==
    IF is_some(option) THEN Some(option.encryptable.inner) ELSE None

(* Some(pii::Email) *)
SomeEmail(email) == [tag |-> "Some", email |-> email]

(* Option::map(pii::Email::from) *)
map_email_from(option) ==
    IF is_some(option) THEN SomeEmail(option.encryptable.inner) ELSE None

AddressDetails(address) ==
    [ city |-> address.city,
      country |-> address.country,
      line1 |-> map_into_inner(address.line1),
      line2 |-> map_into_inner(address.line2),
      line3 |-> map_into_inner(address.line3),
      state |-> map_into_inner(address.state),
      zip |-> map_into_inner(address.zip),
      first_name |-> map_into_inner(address.first_name),
      last_name |-> map_into_inner(address.last_name) ]

SomeDetails(details) == [tag |-> "Some", details |-> details]

PhoneDetails(address) ==
    [ number |-> map_into_inner(address.phone_number),
      country_code |-> address.country_code ]

SomePhone(phone) == [tag |-> "Some", phone |-> phone]

(* address_details with last_name left out of the emptiness test *)
address_details_LastNameUnchecked(address) ==
    IF \A f \in AddressDetailFields \ {"last_name"} : ~is_some(address[f])
    THEN None
    ELSE SomeDetails(AddressDetails(address))

(* lines 630-653 *)
address_details(address) ==
    IF /\ ~is_some(address.city)
       /\ ~is_some(address.line1)
       /\ ~is_some(address.line2)
       /\ ~is_some(address.line3)
       /\ ~is_some(address.state)
       /\ ~is_some(address.country)
       /\ ~is_some(address.zip)
       /\ ~is_some(address.first_name)
       /\ ~is_some(address.last_name)
    THEN None
    ELSE SomeDetails(AddressDetails(address))

(* lines 656-663 *)
phone_details(address) ==
    IF ~is_some(address.phone_number) /\ ~is_some(address.country_code)
    THEN None
    ELSE SomePhone(PhoneDetails(address))

(* a return value that is an api_types::Address *)
ValueAddress(api_address) == [tag |-> "Value", api_address |-> api_address]

(* lines 665-669 *)
toApiAddress(address) ==
    ValueAddress([ address |-> address_details(address),
                   phone |-> phone_details(address),
                   email |-> map_email_from(address.email) ])

AddressInput(address) == [address |-> address]

(* the value a field holds when it is present *)
PresentValue ==
    [ city |-> "Berlin", country |-> "DE", line1 |-> "1 Main Street",
      line2 |-> "Floor 2", line3 |-> "Suite 3", state |-> "BE",
      zip |-> "10115", first_name |-> "Ada", last_name |-> "Lovelace",
      phone_number |-> "5550100", country_code |-> "+49",
      email |-> "ada@example.com" ]

(* at most this many of the nine detail fields are present, or all nine *)
MaxPresentDetails == 1

PresentFieldSets ==
    { details \cup phone \cup email :
        details \in { s \in SUBSET AddressDetailFields :
                        \/ Cardinality(s) <= MaxPresentDetails
                        \/ s = AddressDetailFields },
        phone \in SUBSET PhoneFields,
        email \in SUBSET {"email"} }

(* the domain::Address whose present fields are `present` *)
AddressWith(present) ==
    [ f \in AddressFields |->
        IF f \notin present THEN None
        ELSE IF f \in EncryptableFields THEN SomeEncryptable(PresentValue[f])
        ELSE Some(PresentValue[f]) ]

----------------------------------------------------------------------------
(* Calls in flight at the same time.  A call owns its argument, its local  *)
(* payment_confirm_source and its result; the conversions hold no static   *)
(* and take their argument by value or by shared reference (&HeaderMap).   *)

NumCalls == 2

CallIds == 1..NumCalls

IdleCall ==
    [ pc |-> "idle", fn |-> "none", arg |-> EnumInput("none"),
      payment_confirm_source |-> None, result |-> None ]

(* the conversions that are a single match *)
MatchConversions ==
    { "deriveIntentStatus", "toCaptureStatus", "classifyIntentEvent",
      "classifyRefundEvent", "classifyDisputeEvent", "classifyMandateEvent",
      "mapRefundWebhook", "mapMandateWebhook", "mapDisputeWebhook" }

(* what the conversion named fn returns for the value *)
matchConversion(fn, value) ==
    CASE fn = "deriveIntentStatus" -> Value(deriveIntentStatus(value))
      [] fn = "toCaptureStatus" -> toCaptureStatus(value)
      [] fn = "classifyIntentEvent" -> classifyIntentEvent(value)
      [] fn = "classifyRefundEvent" -> classifyRefundEvent(value)
      [] fn = "classifyDisputeEvent" -> Value(classifyDisputeEvent(value))
      [] fn = "classifyMandateEvent" -> classifyMandateEvent(value)
      [] fn = "mapRefundWebhook" -> mapRefundWebhook(value)
      [] fn = "mapMandateWebhook" -> mapMandateWebhook(value)
      [] fn = "mapDisputeWebhook" -> mapDisputeWebhook(value)

(* the calls that are made while others are in flight *)
ConcurrentHeaderMaps ==
    { HeaderMapOf(Absent, Absent, Absent, Absent),
      HeaderMapOf("sdk", "true", "web", "1.2.3"),
      HeaderMapOf("webhook", Absent, "web", Absent),
      HeaderMapOf("unknown_source", "false", Absent, Absent),
      HeaderMapOf("postman", "true", OpaqueBytes, Absent) }

ConcurrentCalls ==
    { [fn |-> "deriveIntentStatus", arg |-> EnumInput("Charged")],
      [fn |-> "toCaptureStatus", arg |-> EnumInput("Authorized")],
      [fn |-> "classifyIntentEvent", arg |-> EnumInput("RequiresConfirmation")],
      [fn |-> "classifyRefundEvent", arg |-> EnumInput("Success")],
      [fn |-> "classifyDisputeEvent", arg |-> EnumInput("DisputeWon")],
      [fn |-> "classifyMandateEvent", arg |-> EnumInput("Inactive")],
      [fn |-> "mapRefundWebhook", arg |-> EnumInput("MandateActive")],
      [fn |-> "mapMandateWebhook", arg |-> EnumInput("MandateActive")],
      [fn |-> "mapDisputeWebhook", arg |-> EnumInput("DisputeLost")] }
      \cup { [fn |-> "buildHeaderPayload", arg |-> HeadersInput(headers)] :
               headers \in ConcurrentHeaderMaps }

(* the local of one call kept in a place every call uses *)
ownConfirmSource_Static(in_flight, c) ==
    in_flight[CHOOSE first \in CallIds : \A d \in CallIds : first <= d]
        .payment_confirm_source

(* line 1019: `let payment_confirm_source` is a local of the call *)
ownConfirmSource(in_flight, c) == in_flight[c].payment_confirm_source

----------------------------------------------------------------------------
Init ==
    /\ op = "none"
    /\ input = EnumInput("none")
    /\ output = None
    /\ calls = [c \in CallIds |-> IdleCall]

DeriveIntentStatus ==
    \E s \in AttemptStatus :
        /\ op' = "deriveIntentStatus"
        /\ input' = EnumInput(s)
        /\ output' = Value(deriveIntentStatus(s))
        /\ UNCHANGED calls

ToCaptureStatus ==
    \E s \in AttemptStatus :
        /\ op' = "toCaptureStatus"
        /\ input' = EnumInput(s)
        /\ output' = toCaptureStatus(s)
        /\ UNCHANGED calls

ClassifyIntentEvent ==
    \E s \in IntentStatus :
        /\ op' = "classifyIntentEvent"
        /\ input' = EnumInput(s)
        /\ output' = classifyIntentEvent(s)
        /\ UNCHANGED calls

ClassifyRefundEvent ==
    \E s \in RefundStatus :
        /\ op' = "classifyRefundEvent"
        /\ input' = EnumInput(s)
        /\ output' = classifyRefundEvent(s)
        /\ UNCHANGED calls

ClassifyDisputeEvent ==
    \E s \in DisputeStatus :
        /\ op' = "classifyDisputeEvent"
        /\ input' = EnumInput(s)
        /\ output' = Value(classifyDisputeEvent(s))
        /\ UNCHANGED calls

ClassifyMandateEvent ==
    \E s \in MandateStatus :
        /\ op' = "classifyMandateEvent"
        /\ input' = EnumInput(s)
        /\ output' = classifyMandateEvent(s)
        /\ UNCHANGED calls

MapRefundWebhook ==
    \E e \in IncomingWebhookEvent :
        /\ op' = "mapRefundWebhook"
        /\ input' = EnumInput(e)
        /\ output' = mapRefundWebhook(e)
        /\ UNCHANGED calls

MapMandateWebhook ==
    \E e \in IncomingWebhookEvent :
        /\ op' = "mapMandateWebhook"
        /\ input' = EnumInput(e)
        /\ output' = mapMandateWebhook(e)
        /\ UNCHANGED calls

MapDisputeWebhook ==
    \E e \in IncomingWebhookEvent :
        /\ op' = "mapDisputeWebhook"
        /\ input' = EnumInput(e)
        /\ output' = mapDisputeWebhook(e)
        /\ UNCHANGED calls

BuildHeaderPayload ==
    \E confirm_source \in ConfirmSourceValues \cup {Absent},
       latency \in LatencyValues \cup {Absent},
       client_source \in ClientSourceValues \cup {Absent},
       client_version \in ClientVersionValues \cup {Absent} :
        LET headers == HeaderMapOf(confirm_source, latency, client_source,
                                   client_version)
        IN  /\ op' = "buildHeaderPayload"
            /\ input' = HeadersInput(headers)
            /\ output' = buildHeaderPayload(headers)
            /\ UNCHANGED calls

ToRoutableConnector ==
    \E from \in Connector :
        /\ op' = "toRoutableConnector"
        /\ input' = EnumInput(from)
        /\ output' = toRoutableConnector(from)
        /\ UNCHANGED calls

ToEventListConstraintsInternal ==
    \E object_id \in ObjectIdValues,
       created_after \in CreatedAfterValues,
       created_before \in CreatedBeforeValues,
       limit \in LimitValues,
       offset \in OffsetValues :
        LET item == EventListConstraints(object_id, created_after,
                                         created_before, limit, offset)
        IN  /\ op' = "toEventListConstraintsInternal"
            /\ input' = ItemInput(item)
            /\ output' = toEventListConstraintsInternal(item)
            /\ UNCHANGED calls

ToEventListItemResponse ==
    \E item \in Events :
        /\ op' = "toEventListItemResponse"
        /\ input' = ItemInput(item)
        /\ output' = toEventListItemResponse(item)
        /\ UNCHANGED calls

ToEventRetrieveResponse ==
    \E item \in Events :
        /\ op' = "toEventRetrieveResponse"
        /\ input' = ItemInput(item)
        /\ output' = toEventRetrieveResponse(item)
        /\ UNCHANGED calls

ToApiAddress ==
    \E present \in PresentFieldSets :
        LET address == AddressWith(present)
        IN  /\ op' = "toApiAddress"
            /\ input' = AddressInput(address)
            /\ output' = toApiAddress(address)
            /\ UNCHANGED calls

Next ==
    \/ DeriveIntentStatus
    \/ ToCaptureStatus
    \/ ClassifyIntentEvent
    \/ ClassifyRefundEvent
    \/ ClassifyDisputeEvent
    \/ ClassifyMandateEvent
    \/ MapRefundWebhook
    \/ MapMandateWebhook
    \/ MapDisputeWebhook
    \/ BuildHeaderPayload
    \/ ToRoutableConnector
    \/ ToEventListConstraintsInternal
    \/ ToEventListItemResponse
    \/ ToEventRetrieveResponse
    \/ ToApiAddress

Spec == Init /\ [][Next]_vars

----------------------------------------------------------------------------
(* Interleaved calls: one step of one call at a time *)

StartCall ==
    \E c \in CallIds, call \in ConcurrentCalls :
        /\ calls[c].pc = "idle"
        /\ calls' = [calls EXCEPT ![c] =
               [ pc |-> IF call.fn = "buildHeaderPayload" THEN "parse" ELSE "match",
                 fn |-> call.fn, arg |-> call.arg,
                 payment_confirm_source |-> None, result |-> None ]]
        /\ UNCHANGED <<op, input, output>>

(* a conversion that is one match runs to its return value *)
RunMatch ==
    \E c \in CallIds :
        /\ calls[c].pc = "match"
        /\ calls' = [calls EXCEPT
               ![c].pc = "done",
               ![c].result = matchConversion(calls[c].fn, calls[c].arg.value)]
        /\ UNCHANGED <<op, input, output>>

(* lines 1019-1033 *)
ParseConfirmSource ==
    \E c \in CallIds :
        /\ calls[c].pc = "parse"
        /\ LET source == parsePaymentConfirmSource(calls[c].arg.headers)
           IN  calls' = IF source.tag = "Err"
                        THEN [calls EXCEPT ![c].pc = "done", ![c].result = source]
                        ELSE [calls EXCEPT ![c].pc = "check",
                                           ![c].payment_confirm_source = source.val]
        /\ UNCHANGED <<op, input, output>>

(* lines 1034-1043 *)
CheckInternalOnly ==
    \E c \in CallIds :
        /\ calls[c].pc = "check"
        /\ LET checked == rejectInternalOnly(ownConfirmSource(calls, c))
           IN  calls' = IF checked.tag = "Err"
                        THEN [calls EXCEPT ![c].pc = "done", ![c].result = checked]
                        ELSE [calls EXCEPT ![c].pc = "assemble"]
        /\ UNCHANGED <<op, input, output>>

(* lines 1044-1059 *)
AssemblePayload ==
    \E c \in CallIds :
        /\ calls[c].pc = "assemble"
        /\ calls' = [calls EXCEPT
               ![c].pc = "done",
               ![c].result = assembleHeaderPayload(calls[c].arg.headers,
                                                   ownConfirmSource(calls, c))]
        /\ UNCHANGED <<op, input, output>>

(* the caller takes the result *)
ReturnCall ==
    \E c \in CallIds :
        /\ calls[c].pc = "done"
        /\ calls' = [calls EXCEPT ![c] = IdleCall]
        /\ UNCHANGED <<op, input, output>>

ConcurrentNext ==
    \/ StartCall
    \/ RunMatch
    \/ ParseConfirmSource
    \/ CheckInternalOnly
    \/ AssemblePayload
    \/ ReturnCall

ConcurrentSpec == Init /\ [][ConcurrentNext]_vars

----------------------------------------------------------------------------
(* Properties *)

IsOk(r, v) == r.tag = "Ok" /\ r.val = v

IsErr(r, kind) == r.tag = "Err" /\ r.err.error = kind

IsSome(r, v) == r.tag = "Some" /\ r.val = v

Range(seq) == { seq[i] : i \in 1..Len(seq) }

ArmsMatching(arms, v) == { i \in 1..Len(arms) : ArmMatches(arms[i], v) }

(* C1: deriveIntentStatus is total: AttemptStatus has 24 variants, each is  *)
(* matched by exactly one arm, and the value returned for it is one of the *)
(* IntentStatus variants (never the absence of a matching arm).            *)
C1_DeriveIntentStatusTotal ==
    /\ Cardinality(AttemptStatus) = 24
    /\ op = "deriveIntentStatus" =>
           /\ input.value \in AttemptStatus
           /\ Cardinality(ArmsMatching(deriveIntentStatusArms, input.value)) = 1
           /\ output.tag = "Value"
           /\ output.val # Unmatched
           /\ output.val \in IntentStatus

C1_Witness ==
    /\ op = "deriveIntentStatus"
    /\ input.value = "Voided"
    /\ output.val = "Cancelled"

CaptureWhitelist ==
    { "Charged", "PartialCharged", "Pending", "CaptureInitiated", "Failure",
      "CaptureFailed" }

(* C2: toCaptureStatus returns Ok for exactly the six whitelisted attempt  *)
(* statuses: Charged and PartialCharged give Ok(Charged), Pending and      *)
(* CaptureInitiated give Ok(Pending), Failure and CaptureFailed give       *)
(* Ok(Failed).                                                             *)
C2_CaptureWhitelistMapping ==
    op = "toCaptureStatus" =>
        /\ input.value \in {"Charged", "PartialCharged"} => IsOk(output, "Charged")
        /\ input.value \in {"Pending", "CaptureInitiated"} => IsOk(output, "Pending")
        /\ input.value \in {"Failure", "CaptureFailed"} => IsOk(output, "Failed")
        /\ output.tag = "Ok" <=> input.value \in CaptureWhitelist

C2_Witness ==
    /\ op = "toCaptureStatus"
    /\ input.value = "PartialCharged"
    /\ IsOk(output, "Charged")

(* C3: every attempt status outside the whitelist is rejected with         *)
(* PreconditionFailed, and the statuses the error message names are        *)
(* exactly the statuses toCaptureStatus accepts.                           *)
C3_CaptureRejection ==
    (op = "toCaptureStatus" /\ input.value \notin CaptureWhitelist) =>
        /\ IsErr(output, "PreconditionFailed")
        /\ Range(output.err.names)
               = { a \in AttemptStatus : toCaptureStatus(a).tag = "Ok" }

C3_Witness ==
    /\ op = "toCaptureStatus"
    /\ input.value \in {"AutoRefunded", "Authorized", "Voided",
                  "PartialChargedAndChargeable"}
    /\ IsErr(output, "PreconditionFailed")

(* the confirm-source header of the request parses to an internal-only source *)
InternalOnlySourceSupplied(headers) ==
    LET source == parsePaymentConfirmSource(headers)
    IN  /\ source.tag = "Ok"
        /\ source.val.tag = "Some"
        /\ is_for_internal_use_only(source.val.val)

(* C4: a request whose confirm-source header parses to an internal-only    *)
(* PaymentSource is answered Err(InvalidRequestData) whatever the other    *)
(* three headers hold, and no HeaderPayload carries an internal-only       *)
(* confirm source.                                                         *)
C4_InternalOnlySourceRejected ==
    op = "buildHeaderPayload" =>
        /\ InternalOnlySourceSupplied(input.headers) => IsErr(output, "InvalidRequestData")
        /\ (output.tag = "Ok" /\ output.payload.payment_confirm_source.tag = "Some") =>
               ~is_for_internal_use_only(output.payload.payment_confirm_source.val)

(* an internal-only source next to headers that cannot even be read *)
C4_Witness ==
    /\ op = "buildHeaderPayload"
    /\ HeaderNames \subseteq DOMAIN input.headers
    /\ input.headers[X_PAYMENT_CONFIRM_SOURCE] = "external_authenticator"
    /\ input.headers[X_CLIENT_SOURCE] = OpaqueBytes
    /\ input.headers[X_CLIENT_VERSION] = OpaqueBytes
    /\ input.headers[X_HS_LATENCY] = "true"
    /\ IsErr(output, "InvalidRequestData")

(* C5: the refund mapper gives Ok(Success) for RefundSuccess, Ok(Failure)  *)
(* for RefundFailure and IncorrectValueProvided on field                   *)
(* incoming_webhook_event_type for every other tag; no other RefundStatus  *)
(* is ever returned.                                                       *)
C5_RefundWebhookMapping ==
    op = "mapRefundWebhook" =>
        /\ input.value = "RefundSuccess" => IsOk(output, "Success")
        /\ input.value = "RefundFailure" => IsOk(output, "Failure")
        /\ input.value \notin {"RefundSuccess", "RefundFailure"} =>
               /\ IsErr(output, "IncorrectValueProvided")
               /\ output.err.field_name = "incoming_webhook_event_type"
        /\ output.tag = "Ok" => output.val \in {"Success", "Failure"}

C5_Witness ==
    /\ op = "mapRefundWebhook"
    /\ input.value = "MandateActive"
    /\ IsErr(output, "IncorrectValueProvided")

DisputeTags ==
    { "DisputeOpened", "DisputeExpired", "DisputeAccepted",
      "DisputeCancelled", "DisputeChallenged", "DisputeWon", "DisputeLost" }

(* C6: the dispute mapper sends each of the seven dispute tags to the      *)
(* DisputeStatus of the same name, which is a bijection onto               *)
(* DisputeStatus, and answers every other tag with IncorrectValueProvided  *)
(* on field incoming_webhook_event.                                        *)
C6_DisputeWebhookMapping ==
    /\ Cardinality(DisputeTags) = 7
    /\ DisputeTags \subseteq IncomingWebhookEvent
    /\ { mapDisputeWebhook(e).val : e \in DisputeTags } = DisputeStatus
    /\ op = "mapDisputeWebhook" =>
           /\ input.value \in DisputeTags => IsOk(output, input.value)
           /\ input.value \notin DisputeTags =>
                  /\ IsErr(output, "IncorrectValueProvided")
                  /\ output.err.field_name = "incoming_webhook_event"

C6_Witness ==
    /\ op = "mapDisputeWebhook"
    /\ input.value = "DisputeWon"
    /\ IsOk(output, "DisputeWon")

(* C7: the mandate mapper gives Ok(Active) for MandateActive, Ok(Revoked)  *)
(* for MandateRevoked and IncorrectValueProvided on field                  *)
(* incoming_webhook_event_type for every other tag; Inactive and Pending   *)
(* are never returned.                                                     *)
C7_MandateWebhookMapping ==
    op = "mapMandateWebhook" =>
        /\ input.value = "MandateActive" => IsOk(output, "Active")
        /\ input.value = "MandateRevoked" => IsOk(output, "Revoked")
        /\ input.value \notin {"MandateActive", "MandateRevoked"} =>
               /\ IsErr(output, "IncorrectValueProvided")
               /\ output.err.field_name = "incoming_webhook_event_type"
        /\ output.tag = "Ok" => output.val \notin {"Inactive", "Pending"}

C7_Witness ==
    /\ op = "mapMandateWebhook"
    /\ input.value = "MandateRevoked"
    /\ IsOk(output, "Revoked")

(* the event each IntentStatus is said to raise *)
IntentEventTable ==
    [ Succeeded |-> "PaymentSucceeded", Failed |-> "PaymentFailed",
      Processing |-> "PaymentProcessing",
      RequiresMerchantAction |-> "ActionRequired",
      RequiresCustomerAction |-> "ActionRequired",
      Cancelled |-> "PaymentCancelled",
      PartiallyCaptured |-> "PaymentCaptured",
      PartiallyCapturedAndCapturable |-> "PaymentCaptured",
      RequiresCapture |-> "PaymentAuthorized" ]

(* C8: classifyEvent on IntentStatus returns the event of the table above  *)
(* for the nine statuses it lists and None for exactly                     *)
(* RequiresPaymentMethod and RequiresConfirmation.                         *)
C8_IntentEventClassification ==
    op = "classifyIntentEvent" =>
        /\ input.value \in DOMAIN IntentEventTable =>
               IsSome(output, IntentEventTable[input.value])
        /\ output.tag = "None" <=>
               input.value \in {"RequiresPaymentMethod", "RequiresConfirmation"}
        /\ DOMAIN IntentEventTable
               \cup {"RequiresPaymentMethod", "RequiresConfirmation"}
               = IntentStatus

C8_Witness ==
    /\ op = "classifyIntentEvent"
    /\ input.value = "RequiresCapture"
    /\ IsSome(output, "PaymentAuthorized")

(* C9: deriveIntentStatus returns Succeeded exactly for Charged and        *)
(* AutoRefunded, Cancelled exactly for Voided, and Failed exactly for the  *)
(* six failure attempts.                                                   *)
C9_TerminalIntentStatuses ==
    op = "deriveIntentStatus" =>
        /\ output.val = "Succeeded" <=> input.value \in {"Charged", "AutoRefunded"}
        /\ output.val = "Cancelled" <=> input.value = "Voided"
        /\ output.val = "Failed" <=>
               input.value \in {"AuthenticationFailed", "AuthorizationFailed",
                          "VoidFailed", "RouterDeclined", "CaptureFailed",
                          "Failure"}

C9_Witness ==
    /\ op = "deriveIntentStatus"
    /\ input.value = "VoidFailed"
    /\ output.val = "Failed"

(* C10: deriveIntentStatus returns Processing exactly for the seven        *)
(* in-flight attempts Started, Authorizing, AuthenticationSuccessful,      *)
(* CodInitiated, VoidInitiated, CaptureInitiated and Pending.              *)
C10_ProcessingAttempts ==
    op = "deriveIntentStatus" =>
        (output.val = "Processing" <=>
            input.value \in {"Started", "Authorizing", "AuthenticationSuccessful",
                       "CodInitiated", "VoidInitiated", "CaptureInitiated",
                       "Pending"})

C10_Witness ==
    /\ op = "deriveIntentStatus"
    /\ input.value = "CaptureInitiated"
    /\ output.val = "Processing"

(* the intent status each of the eight waiting or partial attempts is said *)
(* to derive                                                               *)
WaitingIntentTable ==
    [ PaymentMethodAwaited |-> "RequiresPaymentMethod",
      ConfirmationAwaited |-> "RequiresConfirmation",
      Authorized |-> "RequiresCapture",
      AuthenticationPending |-> "RequiresCustomerAction",
      DeviceDataCollectionPending |-> "RequiresCustomerAction",
      Unresolved |-> "RequiresMerchantAction",
      PartialCharged |-> "PartiallyCaptured",
      PartialChargedAndChargeable |-> "PartiallyCapturedAndCapturable" ]

(* C11: deriveIntentStatus sends the eight attempts of the table above to  *)
(* the intent status listed for them, and no other attempt derives any of  *)
(* those seven intent statuses.                                            *)
C11_WaitingAndPartialAttempts ==
    /\ Cardinality({ WaitingIntentTable[a] : a \in DOMAIN WaitingIntentTable }) = 7
    /\ op = "deriveIntentStatus" =>
           /\ input.value \in DOMAIN WaitingIntentTable =>
                  output.val = WaitingIntentTable[input.value]
           /\ output.val \in { WaitingIntentTable[a] : a \in DOMAIN WaitingIntentTable }
                  => input.value \in DOMAIN WaitingIntentTable

C11_Witness ==
    /\ op = "deriveIntentStatus"
    /\ input.value = "DeviceDataCollectionPending"
    /\ output.val = "RequiresCustomerAction"

(* the dispute event types *)
DisputeEventTypes ==
    { "DisputeOpened", "DisputeExpired", "DisputeAccepted",
      "DisputeCancelled", "DisputeChallenged", "DisputeWon", "DisputeLost" }

(* C12: classifyEvent on DisputeStatus always yields an event: each of the *)
(* seven statuses gives the dispute EventType of the same name, and        *)
(* distinct statuses give distinct event types.                            *)
C12_DisputeEventClassification ==
    op = "classifyDisputeEvent" =>
        /\ input.value \in DisputeStatus
        /\ output.tag = "Value"
        /\ output.val \in DisputeEventTypes
        /\ output.val = input.value
        /\ \A other \in DisputeStatus \ {input.value} :
               classifyDisputeEvent(other) # output.val

C12_Witness ==
    /\ op = "classifyDisputeEvent"
    /\ input.value = "DisputeExpired"
    /\ output.val = "DisputeExpired"

(* C13: classifyEvent on RefundStatus gives RefundSucceeded for Success,   *)
(* RefundFailed for Failure and None for ManualReview, Pending and         *)
(* TransactionFailure.                                                     *)
C13_RefundEventClassification ==
    op = "classifyRefundEvent" =>
        /\ input.value = "Success" => IsSome(output, "RefundSucceeded")
        /\ input.value = "Failure" => IsSome(output, "RefundFailed")
        /\ input.value \in {"ManualReview", "Pending", "TransactionFailure"} =>
               output = None
        /\ input.value \in {"Success", "Failure", "ManualReview", "Pending",
                            "TransactionFailure"}

C13_Witness ==
    /\ op = "classifyRefundEvent"
    /\ input.value = "TransactionFailure"
    /\ output.tag = "None"

(* C14: classifyEvent on MandateStatus gives MandateActive for Active,     *)
(* MandateRevoked for Revoked and None for Inactive and Pending.           *)
C14_MandateEventClassification ==
    op = "classifyMandateEvent" =>
        /\ input.value = "Active" => IsSome(output, "MandateActive")
        /\ input.value = "Revoked" => IsSome(output, "MandateRevoked")
        /\ input.value \in {"Inactive", "Pending"} => output = None
        /\ input.value \in {"Active", "Revoked", "Inactive", "Pending"}

C14_Witness ==
    /\ op = "classifyMandateEvent"
    /\ input.value = "Inactive"
    /\ output.tag = "None"

(* the request carries a confirm-source header that can be read as a string *)
ConfirmSourceReadable(headers) ==
    LET got == get_header_value_by_key(X_PAYMENT_CONFIRM_SOURCE, headers)
    IN  got.tag = "Ok" /\ got.val.tag = "Some"

(* the request carries a confirm-source header that gives no PaymentSource *)
ConfirmSourceNotParsed(headers) ==
    /\ X_PAYMENT_CONFIRM_SOURCE \in DOMAIN headers
    /\ LET got == get_header_value_by_key(X_PAYMENT_CONFIRM_SOURCE, headers)
       IN  got.tag = "Err" \/ parse_enum(got.val.val).tag = "Err"

WithoutHeader(headers, key) == [k \in DOMAIN headers \ {key} |-> headers[k]]

LatencyIsLiteralTrue(headers) ==
    X_HS_LATENCY \in DOMAIN headers /\ headers[X_HS_LATENCY] = "true"

(* C16: a returned payload has x_hs_latency = Some(b), b being true        *)
(* exactly when the latency header is present with the literal value       *)
(* "true"; and the latency header never causes an error: a request that    *)
(* fails fails the same way without its latency header.                    *)
C16_LatencyFlag ==
    op = "buildHeaderPayload" =>
        /\ output.tag = "Ok" =>
               /\ output.payload.x_hs_latency.tag = "Some"
               /\ output.payload.x_hs_latency.flag
                      = LatencyIsLiteralTrue(input.headers)
        /\ output.tag = "Err" =>
               output = buildHeaderPayload(WithoutHeader(input.headers, X_HS_LATENCY))

(* a latency header that cannot be read gives Some(false), not an error *)
C16_Witness ==
    /\ op = "buildHeaderPayload"
    /\ X_HS_LATENCY \in DOMAIN input.headers
    /\ input.headers[X_HS_LATENCY] = OpaqueBytes
    /\ output.tag = "Ok"
    /\ output.payload.x_hs_latency = SomeFlag(FALSE)

(* the header is absent or its value can be read as a string *)
HeaderReadable(headers, key) == get_header_value_by_key(key, headers).tag = "Ok"

(* Some(value) of a header that is present, None of one that is absent *)
HeaderCopied(headers, key) ==
    IF key \in DOMAIN headers THEN Some(headers[key]) ELSE None

WithoutClientHeaders(headers) ==
    WithoutHeader(WithoutHeader(headers, X_CLIENT_SOURCE), X_CLIENT_VERSION)

RestrictHeaders(headers, kept) == [k \in DOMAIN headers \cap kept |-> headers[k]]

(* C18: a request with none of the four headers is answered Ok with no     *)
(* confirm source, no client source, no client version and                 *)
(* x_hs_latency = Some(false); and the absence of headers never produces   *)
(* an error: a request that succeeds still succeeds with any of its        *)
(* headers left out.                                                       *)
C18_AbsentHeadersAccepted ==
    op = "buildHeaderPayload" =>
        /\ DOMAIN input.headers = {} =>
               output = OkPayload(HeaderPayload(None, None, None, SomeFlag(FALSE)))
        /\ output.tag = "Ok" =>
               \A kept \in SUBSET HeaderNames :
                   buildHeaderPayload(RestrictHeaders(input.headers, kept)).tag = "Ok"

C18_Witness ==
    /\ op = "buildHeaderPayload"
    /\ DOMAIN input.headers = {}
    /\ output.tag = "Ok"
    /\ output.payload.payment_confirm_source = None

(* the arms of the match each conversion is made of *)
MatchOf ==
    [ deriveIntentStatus |-> deriveIntentStatusArms,
      toCaptureStatus |-> toCaptureStatusArms,
      classifyIntentEvent |-> classifyIntentEventArms,
      classifyRefundEvent |-> classifyRefundEventArms,
      classifyDisputeEvent |-> classifyDisputeEventArms,
      classifyMandateEvent |-> classifyMandateEventArms,
      mapRefundWebhook |-> mapRefundWebhookArms,
      mapMandateWebhook |-> mapMandateWebhookArms,
      mapDisputeWebhook |-> mapDisputeWebhookArms ]

(* the arm that decides the value: the first one matching it *)
DecidingArm(arms, v) ==
    arms[CHOOSE i \in ArmsMatching(arms, v) :
             \A j \in ArmsMatching(arms, v) : i <= j]

(* C19: no conversion decides its input through a catch-all arm: the arm   *)
(* that decided the input of a call lists that variant explicitly, and no  *)
(* match has an arm that would take a variant it does not list.            *)
C19_NoCatchAllArm ==
    op \in DOMAIN MatchOf =>
        /\ ~DecidingArm(MatchOf[op], input.value).wild
        /\ input.value \in DecidingArm(MatchOf[op], input.value).pats
        /\ \A i \in 1..Len(MatchOf[op]) : ~MatchOf[op][i].wild

NonRoutableMessages ==
    [ Gpayments |-> "gpayments is not a routable connector",
      Netcetera |-> "netcetera is not a routable connector",
      Plaid |-> "plaid is not a routable connector",
      Signifyd |-> "signifyd is not a routable connector",
      Riskified |-> "riskified is not a routable connector",
      Threedsecureio |-> "threedsecureio is not a routable connector" ]

(* C22: the Connector -> RoutableConnectors conversion returns the         *)
(* validation error InvalidValue with the message "<name> is not a         *)
(* routable connector" for exactly the six connectors Gpayments,           *)
(* Netcetera, Plaid, Signifyd, Riskified and Threedsecureio, and for every *)
(* other Connector returns Ok with the variant of the same name.           *)
C22_RoutableConnectors ==
    op = "toRoutableConnector" =>
        /\ Cardinality(DOMAIN NonRoutableMessages) = 6
        /\ DOMAIN NonRoutableMessages \subseteq Connector
        /\ IF input.value \in DOMAIN NonRoutableMessages
           THEN output = Err(InvalidValue(NonRoutableMessages[input.value]))
           ELSE output = Ok(input.value)

C22_Witness ==
    /\ op = "toRoutableConnector"
    /\ input.value = "Riskified"
    /\ output.tag = "Err"
    /\ output.err.message = "riskified is not a routable connector"

ListingFields == { "created_after", "created_before", "limit", "offset" }

(* C23: converting EventListConstraints returns Err(PreconditionFailed)    *)
(* exactly when object_id is set together with at least one of             *)
(* created_after, created_before, limit, offset; otherwise it returns      *)
(* ObjectIdFilter when object_id is set and GenericFilter, carrying the    *)
(* four other fields unchanged (each possibly absent), when it is not.     *)
C23_EventListConstraints ==
    op = "toEventListConstraintsInternal" =>
        LET item == input.item
            object_id_set == item.object_id.tag = "Some"
            listing_set == \E f \in ListingFields : item[f].tag = "Some"
        IN  /\ (output.tag = "Err") <=> (object_id_set /\ listing_set)
            /\ output.tag = "Err" => output.err.error = "PreconditionFailed"
            /\ output.tag = "Ok" /\ object_id_set =>
                   /\ output.filter.kind = "ObjectIdFilter"
                   /\ output.filter.id = item.object_id.val
            /\ output.tag = "Ok" /\ ~object_id_set =>
                   /\ output.filter.kind = "GenericFilter"
                   /\ \A f \in ListingFields : output.filter[f] = item[f]

C23_Witness ==
    /\ op = "toEventListConstraintsInternal"
    /\ input.item.object_id.tag = "Some"
    /\ input.item.offset.tag = "Some"
    /\ input.item.limit.tag = "None"
    /\ input.item.created_after.tag = "None"
    /\ input.item.created_before.tag = "None"
    /\ output.tag = "Err"

IdsPopulated(item) ==
    /\ item.merchant_id.tag = "Some"
    /\ item.business_profile_id.tag = "Some"
    /\ item.initial_attempt_id.tag = "Some"

(* the list item carries every field, the three ids those of the event *)
ListItemFilled(response, item) ==
    /\ response.merchant = item.merchant_id.val
    /\ response.profile = item.business_profile_id.val
    /\ response.initial_attempt = item.initial_attempt_id.val
    /\ response.event_id = item.event_id
    /\ response.object_id = item.primary_object_id
    /\ response.event_type = item.event_type
    /\ response.event_class = item.event_class
    /\ response.is_delivery_successful = item.is_webhook_notified
    /\ response.created = item.created_at

ContentsParseable(item) ==
    /\ item.request.tag = "Some"
    /\ item.request.val \in ParsesAs.OutgoingWebhookRequestContent
    /\ item.response.tag = "Some"
    /\ item.response.val \in ParsesAs.OutgoingWebhookResponseContent

(* C24: converting an Event to EventListItemResponse succeeds only if      *)
(* merchant_id, business_profile_id and initial_attempt_id are all         *)
(* populated, and converting it to EventRetrieveResponse succeeds only if  *)
(* those three and both request and response are populated and parse; if   *)
(* a required field is missing the result is Err(InternalServerError),     *)
(* and a response that is returned has every field filled.                 *)
C24_EventResponsesRequireFields ==
    /\ op = "toEventListItemResponse" =>
           /\ (output.tag = "Ok") <=> IdsPopulated(input.item)
           /\ output.tag # "Ok" => output = Err(InternalServerError)
           /\ output.tag = "Ok" => ListItemFilled(output.response, input.item)
    /\ op = "toEventRetrieveResponse" =>
           /\ (output.tag = "Ok") <=>
                  (IdsPopulated(input.item) /\ ContentsParseable(input.item))
           /\ output.tag # "Ok" => output = Err(InternalServerError)
           /\ output.tag = "Ok" =>
                  /\ ListItemFilled(output.response.event_information, input.item)
                  /\ output.response.request_content = "OutgoingWebhookRequestContent"
                  /\ output.response.response_content = "OutgoingWebhookResponseContent"
                  /\ output.response.delivery_attempt = input.item.delivery_attempt

C24_Witness ==
    /\ op = "toEventRetrieveResponse"
    /\ IdsPopulated(input.item)
    /\ input.item.request.tag = "Some"
    /\ input.item.response.tag = "None"
    /\ output.tag = "Err"

AllAbsent(address, fields) == \A f \in fields : address[f].tag = "None"

(* C25: converting a domain Address yields address = None exactly when     *)
(* all nine of city, line1, line2, line3, state, country, zip, first_name, *)
(* last_name are absent, and phone = None exactly when both phone_number   *)
(* and country_code are absent; each decision depends on its own fields    *)
(* only, and the email is copied whatever the two decisions are.           *)
C25_AddressAndPhoneAbsence ==
    op = "toApiAddress" =>
        LET address == input.address
            api == output.api_address
        IN  /\ Cardinality(AddressDetailFields) = 9
            /\ (api.address = None) <=> AllAbsent(address, AddressDetailFields)
            /\ (api.phone = None) <=> AllAbsent(address, PhoneFields)
            /\ (api.email = None) <=> address.email.tag = "None"
            /\ api.email.tag = "Some" =>
                   api.email.email = address.email.encryptable.inner

C25_Witness ==
    /\ op = "toApiAddress"
    /\ input.address.last_name.tag = "Some"
    /\ AllAbsent(input.address, AddressFields \ {"last_name"})
    /\ output.api_address.address.tag = "Some"
    /\ output.api_address.phone = None
    /\ output.api_address.email = None

(* the intent statuses each accepted capture status may stand for *)
CaptureIntentTable ==
    [ Charged |-> {"Succeeded", "PartiallyCaptured"},
      Pending |-> {"Processing"},
      Failed |-> {"Failed"} ]

(* C26: toCaptureStatus and deriveIntentStatus agree on every attempt the  *)
(* capture validator accepts: Ok(Charged) goes with Succeeded or           *)
(* PartiallyCaptured, Ok(Pending) with Processing, Ok(Failed) with Failed; *)
(* no accepted attempt derives to Cancelled, RequiresCapture,              *)
(* RequiresCustomerAction, RequiresMerchantAction, RequiresPaymentMethod   *)
(* or RequiresConfirmation.                                                *)
C26_CaptureAgreesWithIntent ==
    op = "toCaptureStatus" /\ output.tag = "Ok" =>
        /\ output.val \in DOMAIN CaptureIntentTable
        /\ deriveIntentStatus(input.value) \in CaptureIntentTable[output.val]
        /\ deriveIntentStatus(input.value) \notin
               { "Cancelled", "RequiresCapture", "RequiresCustomerAction",
                 "RequiresMerchantAction", "RequiresPaymentMethod",
                 "RequiresConfirmation" }

C26_Witness ==
    /\ op = "toCaptureStatus"
    /\ input.value = "PartialCharged"
    /\ IsOk(output, "Charged")
    /\ deriveIntentStatus(input.value) = "PartiallyCaptured"

WebhookMappers == { "mapRefundWebhook", "mapMandateWebhook", "mapDisputeWebhook" }

(* what the mapper named `mapper` returns for the tag *)
MapperResult(mapper, tag) ==
    IF mapper = "mapRefundWebhook" THEN mapRefundWebhook(tag)
    ELSE IF mapper = "mapMandateWebhook" THEN mapMandateWebhook(tag)
    ELSE mapDisputeWebhook(tag)

AcceptingMappers(tag) ==
    { mapper \in WebhookMappers : MapperResult(mapper, tag).tag = "Ok" }

ElevenDomainTags ==
    { "RefundSuccess", "RefundFailure", "MandateActive", "MandateRevoked" }
        \cup DisputeTags

(* C27: the three webhook mappers accept pairwise disjoint sets of tags:   *)
(* a tag one mapper returns Ok for is rejected by the other two, the tags  *)
(* accepted by some mapper are exactly RefundSuccess, RefundFailure,       *)
(* MandateActive, MandateRevoked and the seven Dispute* tags, and every    *)
(* other tag is rejected by all three.                                     *)
C27_MappersDisjoint ==
    op \in WebhookMappers =>
        /\ Cardinality(ElevenDomainTags) = 11
        /\ output = MapperResult(op, input.value)
        /\ output.tag = "Ok" => AcceptingMappers(input.value) = {op}
        /\ input.value \in ElevenDomainTags <=>
               Cardinality(AcceptingMappers(input.value)) = 1
        /\ input.value \notin ElevenDomainTags <=>
               AcceptingMappers(input.value) = {}

C27_Witness ==
    /\ op = "mapMandateWebhook"
    /\ input.value = "RefundSuccess"
    /\ output.tag = "Err"
    /\ AcceptingMappers(input.value) = {"mapRefundWebhook"}

(* the event each accepted tag ends in *)
WebhookEventTable ==
    [ RefundSuccess |-> "RefundSucceeded", RefundFailure |-> "RefundFailed",
      MandateActive |-> "MandateActive", MandateRevoked |-> "MandateRevoked",
      DisputeOpened |-> "DisputeOpened", DisputeExpired |-> "DisputeExpired",
      DisputeAccepted |-> "DisputeAccepted",
      DisputeCancelled |-> "DisputeCancelled",
      DisputeChallenged |-> "DisputeChallenged", DisputeWon |-> "DisputeWon",
      DisputeLost |-> "DisputeLost" ]

(* the classifier of the domain of a mapper, applied to a status *)
ClassifierResult(mapper, status) ==
    IF mapper = "mapRefundWebhook" THEN classifyRefundEvent(status)
    ELSE IF mapper = "mapMandateWebhook" THEN classifyMandateEvent(status)
    ELSE Some(classifyDisputeEvent(status))

(* C28: every status a webhook mapper accepts is notification-worthy: when *)
(* the refund, mandate or dispute mapper returns Ok(s), classifyEvent(s)   *)
(* is an event and not None: RefundSucceeded, RefundFailed, MandateActive, *)
(* MandateRevoked, or the dispute event named as the tag.                  *)
C28_AcceptedStatusRaisesEvent ==
    op \in WebhookMappers /\ output.tag = "Ok" =>
        /\ input.value \in DOMAIN WebhookEventTable
        /\ ClassifierResult(op, output.val) # None
        /\ ClassifierResult(op, output.val) = Some(WebhookEventTable[input.value])

C28_Witness ==
    /\ op = "mapRefundWebhook"
    /\ input.value = "RefundFailure"
    /\ IsOk(output, "Failure")
    /\ classifyRefundEvent(output.val) = Some("RefundFailed")

FailureAttempts ==
    { "AuthenticationFailed", "AuthorizationFailed", "VoidFailed",
      "RouterDeclined", "CaptureFailed", "Failure" }

InFlightAttempts ==
    { "Started", "AuthenticationSuccessful", "Authorizing", "CodInitiated",
      "VoidInitiated", "CaptureInitiated", "Pending" }

PaymentEventTypes ==
    { "PaymentSucceeded", "PaymentFailed", "PaymentProcessing",
      "PaymentCancelled", "PaymentAuthorized", "PaymentCaptured",
      "ActionRequired" }

(* C29: classifyEvent(deriveIntentStatus(a)) is None exactly for           *)
(* PaymentMethodAwaited and ConfirmationAwaited; every other attempt       *)
(* yields one payment event: the six failure attempts PaymentFailed, the   *)
(* seven in-flight attempts PaymentProcessing, Charged and AutoRefunded    *)
(* PaymentSucceeded.                                                       *)
C29_AttemptToEvent ==
    op = "deriveIntentStatus" =>
        LET event == classifyIntentEvent(output.val)
        IN  /\ Cardinality(FailureAttempts) = 6
            /\ Cardinality(InFlightAttempts) = 7
            /\ event.tag = "None" <=>
                   input.value \in {"PaymentMethodAwaited", "ConfirmationAwaited"}
            /\ event.tag # "None" =>
                   event.tag = "Some" /\ event.val \in PaymentEventTypes
            /\ input.value \in FailureAttempts => event = Some("PaymentFailed")
            /\ input.value \in InFlightAttempts => event = Some("PaymentProcessing")
            /\ input.value \in {"Charged", "AutoRefunded"} =>
                   event = Some("PaymentSucceeded")

C29_Witness ==
    /\ op = "deriveIntentStatus"
    /\ input.value = "ConfirmationAwaited"
    /\ output = Value("RequiresConfirmation")
    /\ classifyIntentEvent(output.val) = None

(* what a call returns when it is the only one *)
ResultAlone(fn, arg) ==
    IF fn = "buildHeaderPayload" THEN buildHeaderPayload(arg.headers)
    ELSE matchConversion(fn, arg.value)

InFlight(c) == calls[c].pc \notin {"idle", "done"}

(* C21: calls running at the same time need no coordination: under every   *)
(* interleaving a finished call holds the result it returns when run       *)
(* alone, a step changes the state of one call only, and a call keeps the  *)
(* argument it was given until it returns.                                 *)
C21_CallsIndependent ==
    /\ [](\A c \in CallIds :
              calls[c].pc = "done" =>
                  calls[c].result = ResultAlone(calls[c].fn, calls[c].arg))
    /\ [][ /\ \E c \in CallIds : \A d \in CallIds \ {c} : calls'[d] = calls[d]
           /\ \A c \in CallIds :
                  calls[c].pc # "idle" /\ calls'[c].pc # "idle" =>
                      /\ calls'[c].arg = calls[c].arg
                      /\ calls'[c].fn = calls[c].fn ]_vars

C21_Witness ==
    /\ calls[1].fn = "buildHeaderPayload"
    /\ calls[1].pc = "check"
    /\ calls[1].payment_confirm_source = Some("Sdk")
    /\ calls[2].fn = "buildHeaderPayload"
    /\ calls[2].pc = "done"
    /\ calls[2].arg # calls[1].arg
    /\ calls[2].result.tag = "Err"

====
